---- MODULE Spec2Model ----
(***************************************************************************)
(* Model of the Flask property-management backend (app/users.py,           *)
(* app/property.py, app/db.py, app/errors.py, app/__init__.py).            *)
(*                                                                         *)
(* The database is two tables, users and properties, with serial primary   *)
(* keys.  Every HTTP handler is one action: it reads the request (header,  *)
(* path id, JSON payload or query string), runs the handler's code path    *)
(* to its return and commits what the handler commits.  The request in     *)
(* hand and its response are req and resp until EndRequest, the teardown   *)
(* of the application context, frees the worker for the next request.      *)
(*                                                                         *)
(* Text is a sequence of one-character strings, so that trimming, letter   *)
(* case, integer parsing and date parsing are computed as the code does.   *)
(* A JSON value is a record [t, s, n]: t the JSON type ("absent" for a key *)
(* the payload does not have), s the characters of a string or the items   *)
(* of a list, n the value of a number.                                     *)
(***************************************************************************)
EXTENDS Integers, Sequences, FiniteSets, TLC

\* ------------------------------------------------------------------ bounds
\* Number of committed transactions a behaviour may contain (the clock's range).
MaxClock == 3
\* Path ids requests are sent for: 1..MaxId (ids never assigned included).
MaxId == 2

\* ------------------------------------------------------------- JSON values
Absent == [t |-> "absent", s |-> <<>>, n |-> 0]
Null == [t |-> "null", s |-> <<>>, n |-> 0]
Str(chars) == [t |-> "str", s |-> chars, n |-> 0]
Num(k) == [t |-> "int", s |-> <<>>, n |-> k]
List(items) == [t |-> "list", s |-> items, n |-> 0]
\* A stored DATE column value, year*10000 + month*100 + day.
DateVal(y, m, d) == [t |-> "date", s |-> <<>>, n |-> y * 10000 + m * 100 + d]

\* Python truthiness of a JSON value (None for an absent key: dict.get).
Truthy(v) ==
    CASE v.t = "str" -> Len(v.s) > 0
      [] v.t = "list" -> Len(v.s) > 0
      [] v.t = "int" -> v.n # 0
      [] OTHER -> FALSE

\* ------------------------------------------------------------------- text
Whitespace == {" "}
Digits == {"0", "1", "2", "3", "4", "5", "6", "7", "8", "9"}

DigitVal(c) ==
    CASE c = "0" -> 0 [] c = "1" -> 1 [] c = "2" -> 2 [] c = "3" -> 3
      [] c = "4" -> 4 [] c = "5" -> 5 [] c = "6" -> 6 [] c = "7" -> 7
      [] c = "8" -> 8 [] c = "9" -> 9

RECURSIVE LStrip(_)
LStrip(s) == IF s # <<>> /\ Head(s) \in Whitespace THEN LStrip(Tail(s)) ELSE s

RECURSIVE RStrip(_)
RStrip(s) ==
    IF s # <<>> /\ s[Len(s)] \in Whitespace
    THEN RStrip(SubSeq(s, 1, Len(s) - 1))
    ELSE s

\* str.strip()
Strip(s) == RStrip(LStrip(s))

LowerChar(c) ==
    CASE c = "P" -> "p" [] c = "A" -> "a" [] c = "R" -> "r" [] c = "I" -> "i"
      [] c = "S" -> "s" [] c = "L" -> "l" [] c = "Y" -> "y" [] c = "O" -> "o"
      [] c = "N" -> "n" [] OTHER -> c

\* SQL LOWER()
Lower(s) == [i \in 1..Len(s) |-> LowerChar(s[i])]

RECURSIVE DigitsValue(_, _)
DigitsValue(s, acc) ==
    IF s = <<>> THEN acc ELSE DigitsValue(Tail(s), acc * 10 + DigitVal(Head(s)))

\* Python int(str): surrounding whitespace stripped, an optional sign, then
\* one or more decimal digits; anything else raises ValueError (ok = FALSE).
ParseInt(s) ==
    LET body == Strip(s)
        signed == body # <<>> /\ Head(body) \in {"-", "+"}
        digs == IF signed THEN Tail(body) ELSE body
        valid == digs # <<>> /\ \A i \in 1..Len(digs) : digs[i] \in Digits
        mag == IF valid THEN DigitsValue(digs, 0) ELSE 0
    IN  [ok |-> valid,
         n |-> IF signed /\ Head(body) = "-" THEN 0 - mag ELSE mag]

\* str.split(sep): the pieces between the occurrences of sep.
RECURSIVE SplitOn(_, _, _)
SplitOn(s, sep, cur) ==
    IF s = <<>> THEN <<cur>>
    ELSE IF Head(s) = sep THEN <<cur>> \o SplitOn(Tail(s), sep, <<>>)
    ELSE SplitOn(Tail(s), sep, Append(cur, Head(s)))

Split(s, sep) == SplitOn(s, sep, <<>>)

\* datetime.date(year, month, day) accepts exactly the real calendar dates of
\* the years 1..9999.
IsLeap(y) == (y % 4 = 0 /\ y % 100 # 0) \/ y % 400 = 0

DaysInMonth(y, m) ==
    CASE m \in {4, 6, 9, 11} -> 30
      [] m = 2 -> IF IsLeap(y) THEN 29 ELSE 28
      [] OTHER -> 31

ValidDate(y, m, d) ==
    /\ y >= 1 /\ y <= 9999
    /\ m >= 1 /\ m <= 12
    /\ d >= 1 /\ d <= DaysInMonth(y, m)

\* ------------------------------------------------------------------ state
VARIABLES
    users,            \* table users: id -> [first_name, last_name, date_of_birth]
    properties,       \* table properties: id -> row
    user_id_seq,      \* next value of the serial users.id
    property_id_seq,  \* next value of the serial properties.id
    now,              \* CURRENT_TIMESTAMP, one tick per committed transaction
    req,              \* the last request served
    resp,             \* its response: [status, error, body]
    conn,             \* the connection of the request in hand, or of the last
                      \* request once it is over: "none" (never opened),
                      \* "open", "closed"
    inflight          \* concurrent workers: worker -> the request it serves,
                      \* where its handler stands (pc), what it holds, its response

vars == <<users, properties, user_id_seq, property_id_seq, now, req, resp, conn, inflight>>

Ids == 1..MaxId

\* ------------------------------------------------- application and teardown
\* app/db.py init_app: registers close_db as a teardown function.
db_init_app == [teardown |-> {"close_db"}, cli |-> {"init-db", "populate-db"}]

\* app/commands.py init_app: registers two CLI commands and nothing else.
commands_init_app == [teardown |-> {}, cli |-> {"init-db", "seed-db"}]

\* create_app: `from . import commands; commands.init_app(app)`.
create_app == commands_init_app

\* close_db: pops g.db and closes it when there is one.
close_db(db) == IF db = "open" THEN "closed" ELSE db

\* End of a request: the application context is popped and every registered
\* teardown function runs on g, whose db is "open" when get_db was called.
teardown_appcontext(db) ==
    IF "close_db" \in create_app.teardown THEN close_db(db) ELSE db

\* ----------------------------------------------------------------- replies
NoBody == <<>>

jsonify(status, body) == [status |-> status, error |-> "", body |-> body]

jsonify_error(status, message) == [status |-> status, error |-> message, body |-> NoBody]

\* app/errors.py: the handlers of abort(404) and of an unhandled exception.
not_found == jsonify_error(404, "not found")

server_error == jsonify_error(500, "internal server error")

\* What a handler did: its response, the tables as it committed them (the
\* current tables when it committed nothing) and whether it called get_db.
Result(response, opened) ==
    [resp |-> response, users |-> users, properties |-> properties,
     user_id_seq |-> user_id_seq, property_id_seq |-> property_id_seq,
     commit |-> FALSE, opened |-> opened]

\* ---------------------------------------------------------------- identity
None == [some |-> FALSE, id |-> 0]
Some(k) == [some |-> TRUE, id |-> k]

get_current_user_id_zero_on_error(raw) ==
    IF raw.t = "absent" THEN None
    ELSE Some(ParseInt(raw.s).n)

\* get_current_user_id: None when the header is absent or int(raw) raises
\* ValueError, int(raw) otherwise.
get_current_user_id(raw) ==
    IF raw.t = "absent" THEN None
    ELSE IF ParseInt(raw.s).ok THEN Some(ParseInt(raw.s).n)
    ELSE None

\* -------------------------------------------------------------------- users
\* `year, month, day = map(int, dob_str.split('-')); date(year, month, day)`:
\* a date, a ValueError (wrong number of parts, a part that is no integer, no
\* such calendar day) or an AttributeError (dob_str has no split method).
parse_date_of_birth(dob_str) ==
    IF dob_str.t # "str" THEN [kind |-> "AttributeError", date |-> Null]
    ELSE LET parts == Split(dob_str.s, "-")
             ints == [i \in 1..Len(parts) |-> ParseInt(parts[i])]
         IN  IF /\ Len(parts) = 3
                /\ \A i \in 1..3 : ints[i].ok
                /\ ValidDate(ints[1].n, ints[2].n, ints[3].n)
             THEN [kind |-> "ok", date |-> DateVal(ints[1].n, ints[2].n, ints[3].n)]
             ELSE [kind |-> "ValueError", date |-> Null]

\* POST /users
create_user(data) ==
    LET first_name == data.first_name
        last_name == data.last_name
        dob_str == data.date_of_birth
        dob == parse_date_of_birth(dob_str)
    IN  IF ~Truthy(first_name) \/ ~Truthy(last_name) \/ ~Truthy(dob_str)
        THEN Result(jsonify_error(400, "first_name, last_name and date_of_birth are required"), FALSE)
        ELSE IF dob.kind = "ValueError"
        THEN Result(jsonify_error(400, "date_of_birth must be YYYY-MM-DD"), FALSE)
        ELSE IF dob.kind = "AttributeError"
        THEN Result(server_error, FALSE)
        ELSE [Result(jsonify(201, [id |-> user_id_seq]), TRUE) EXCEPT
                !.users = (user_id_seq :> [first_name |-> first_name,
                                           last_name |-> last_name,
                                           date_of_birth |-> dob.date]) @@ users,
                !.user_id_seq = user_id_seq + 1,
                !.commit = TRUE]

\* data.get(field, default)
dict_get(data, field, default) == IF data[field].t = "absent" THEN default ELSE data[field]

merge_user_fields_no_default(row, data) ==
    [first_name |-> dict_get(data, "first_name", Null),
     last_name |-> dict_get(data, "last_name", Null),
     date_of_birth |-> row.date_of_birth]

\* update_user: first_name and last_name come from the payload when it names
\* them and from the row read otherwise; date_of_birth starts as the row's.
merge_user_fields(row, data) ==
    [first_name |-> dict_get(data, "first_name", row.first_name),
     last_name |-> dict_get(data, "last_name", row.last_name),
     date_of_birth |-> row.date_of_birth]

apply_user_update_write_first(user_id, data) ==
    IF user_id \notin DOMAIN users THEN Result(not_found, TRUE)
    ELSE LET merged == merge_user_fields(users[user_id], data)
             dob == parse_date_of_birth(data.date_of_birth)
             written == [Result(jsonify(200, [message |-> "user updated"]), TRUE) EXCEPT
                            !.users = [users EXCEPT ![user_id] = merged],
                            !.commit = TRUE]
         IN  IF data.date_of_birth.t \in {"absent", "null"} THEN
                 [written EXCEPT !.users = [users EXCEPT ![user_id] =
                     [merged EXCEPT !.date_of_birth =
                         IF data.date_of_birth.t = "null" THEN Null ELSE @]]]
             ELSE IF dob.kind = "ValueError" THEN
                 [written EXCEPT !.resp = jsonify_error(400, "date_of_birth must be YYYY-MM-DD")]
             ELSE IF dob.kind = "AttributeError" THEN Result(server_error, TRUE)
             ELSE [written EXCEPT !.users = [users EXCEPT ![user_id] =
                     [merged EXCEPT !.date_of_birth = dob.date]]]

\* update_user from get_db on: read the row (404 when there is none), merge,
\* validate date_of_birth, then one UPDATE and the commit.
apply_user_update(user_id, data) ==
    IF user_id \notin DOMAIN users THEN Result(not_found, TRUE)
    ELSE LET merged == merge_user_fields(users[user_id], data)
             dob == parse_date_of_birth(data.date_of_birth)
             updated(d) == [Result(jsonify(200, [message |-> "user updated"]), TRUE) EXCEPT
                              !.users = [users EXCEPT ![user_id] =
                                            [merged EXCEPT !.date_of_birth = d]],
                              !.commit = TRUE]
         IN  IF data.date_of_birth.t = "absent" THEN updated(merged.date_of_birth)
             ELSE IF data.date_of_birth.t = "null" THEN updated(Null)
             ELSE IF dob.kind = "ValueError"
             THEN Result(jsonify_error(400, "date_of_birth must be YYYY-MM-DD"), TRUE)
             ELSE IF dob.kind = "AttributeError" THEN Result(server_error, TRUE)
             ELSE updated(dob.date)

allowed_fields == {"first_name", "last_name", "date_of_birth"}

\* app/users.py get_current_user_id, the same code as app/property.py's.
users_get_current_user_id(raw) ==
    IF raw.t = "absent" THEN None
    ELSE IF ParseInt(raw.s).ok THEN Some(ParseInt(raw.s).n)
    ELSE None

\* PATCH /users/<int:user_id>
update_user(user_id, raw, data) ==
    LET current_user_id == users_get_current_user_id(raw)
    IN  IF ~current_user_id.some
        THEN Result(jsonify_error(401, "X-User-Id header is required"), FALSE)
        ELSE IF current_user_id.id # user_id
        THEN Result(jsonify_error(403, "forbidden: you can only update your own user"), FALSE)
        ELSE IF \A field \in allowed_fields : data[field].t = "absent"
        THEN Result(jsonify_error(400, "no supported fields to update"), FALSE)
        ELSE apply_user_update(user_id, data)

user_to_json(id) ==
    [id |-> id, first_name |-> users[id].first_name,
     last_name |-> users[id].last_name, date_of_birth |-> users[id].date_of_birth]

\* The ids of a table in ascending order (ORDER BY id).
RECURSIVE Ascending(_)
Ascending(S) ==
    IF S = {} THEN <<>>
    ELSE LET m == CHOOSE x \in S : \A y \in S : x <= y
         IN  <<m>> \o Ascending(S \ {m})

\* GET /users
list_users ==
    LET ids == Ascending(DOMAIN users)
    IN  Result(jsonify(200, [i \in 1..Len(ids) |-> user_to_json(ids[i])]), TRUE)

get_user_unchecked(user_id) ==
    IF user_id \notin DOMAIN users THEN Result(server_error, TRUE)
    ELSE Result(jsonify(200, user_to_json(user_id)), TRUE)

\* GET /users/<int:user_id>
get_user(user_id) ==
    IF user_id \notin DOMAIN users THEN Result(not_found, TRUE)
    ELSE Result(jsonify(200, user_to_json(user_id)), TRUE)

\* --------------------------------------------------------------- properties
required_fields == <<"name", "description", "property_type", "city">>

cannot_be_empty(field) ==
    CASE field = "name" -> "name cannot be empty"
      [] field = "description" -> "description cannot be empty"
      [] field = "property_type" -> "property_type cannot be empty"
      [] field = "city" -> "city cannot be empty"

is_required(field) ==
    CASE field = "name" -> "name is required"
      [] field = "description" -> "description is required"
      [] field = "property_type" -> "property_type is required"
      [] field = "city" -> "city is required"

\* json.dumps of a list of room descriptors: the text "[" d1 "," d2 ... "]".
RECURSIVE JoinItems(_)
JoinItems(items) ==
    IF items = <<>> THEN <<>>
    ELSE IF Len(items) = 1 THEN <<items[1]>>
    ELSE <<items[1], ",">> \o JoinItems(Tail(items))

json_dumps(items) == <<"[">> \o JoinItems(items) \o <<"]">>

\* json.loads of a stored text: the list it denotes, or a JSONDecodeError.
json_loads(text) ==
    IF Len(text) < 2 \/ text[1] # "[" \/ text[Len(text)] # "]"
    THEN [ok |-> FALSE, items |-> <<>>]
    ELSE LET inner == SubSeq(text, 2, Len(text) - 1)
             parts == Split(inner, ",")
         IN  IF inner = <<>> THEN [ok |-> TRUE, items |-> <<>>]
             ELSE IF \A i \in 1..Len(parts) : Len(parts[i]) = 1
             THEN [ok |-> TRUE, items |-> [i \in 1..Len(parts) |-> parts[i][1]]]
             ELSE [ok |-> FALSE, items |-> <<>>]

\* int(value) of a JSON value: TypeError for null and lists, ValueError for a
\* string that is no integer.
to_int(value) ==
    CASE value.t = "int" -> [ok |-> TRUE, n |-> value.n]
      [] value.t = "str" -> ParseInt(value.s)
      [] OTHER -> [ok |-> FALSE, n |-> 0]

Max(a, b) == IF a >= b THEN a ELSE b
Min(a, b) == IF a <= b THEN a ELSE b

\* The text-field loop of _extract_property_payload: the error of the first
\* field, in the order of required_fields, that is present but null or blank,
\* or absent when the payload is not partial; "" when there is none.
text_field_error(payload, partial, field) ==
    LET value == payload[field]
    IN  IF value.t # "absent"
        THEN IF value.t = "null" \/ (value.t = "str" /\ Strip(value.s) = <<>>)
             THEN cannot_be_empty(field) ELSE ""
        ELSE IF ~partial THEN is_required(field) ELSE ""

RECURSIVE first_text_error(_, _, _)
first_text_error(payload, partial, i) ==
    IF i > Len(required_fields) THEN ""
    ELSE IF text_field_error(payload, partial, required_fields[i]) # ""
    THEN text_field_error(payload, partial, required_fields[i])
    ELSE first_text_error(payload, partial, i + 1)

normalize_text_no_strip(value) == value

\* `value.strip() if isinstance(value, str) else value`
normalize_text(value) == IF value.t = "str" THEN Str(Strip(value.s)) ELSE value

\* _extract_property_payload: the normalized columns (a function from column
\* name to value) or an error message.
_extract_property_payload(payload, partial) ==
    LET text_error == first_text_error(payload, partial, 1)
        present == {f \in {"name", "description", "property_type", "city"} :
                        payload[f].t # "absent"}
        text_fields == [f \in present |-> normalize_text(payload[f])]
        rooms_details_provided == payload.rooms_details.t # "absent"
        \* `if rooms_details_value in (None, ''): rooms_details_value = []`
        collapsed == IF payload.rooms_details.t = "null"
                        \/ payload.rooms_details = Str(<<>>)
                     THEN List(<<>>) ELSE payload.rooms_details
        rooms_details_value == IF rooms_details_provided THEN collapsed ELSE List(<<>>)
        details_fields ==
            IF rooms_details_provided \/ ~partial
            THEN [f \in {"rooms_details"} |-> Str(json_dumps(rooms_details_value.s))]
            ELSE <<>>
        rooms_count_provided ==
            payload.rooms_count.t # "absent" \/ rooms_details_provided
        rooms_count_value ==
            IF payload.rooms_count.t # "absent" THEN payload.rooms_count
            ELSE Num(Len(rooms_details_value.s))
        rooms_count_int == to_int(rooms_count_value)
        count_fields ==
            IF rooms_count_provided
            THEN [f \in {"rooms_count"} |-> Num(Max(0, rooms_count_int.n))]
            ELSE IF ~partial
            THEN [f \in {"rooms_count"} |-> Num(Len(rooms_details_value.s))]
            ELSE <<>>
    IN  IF text_error # "" THEN [fields |-> <<>>, error |-> text_error]
        ELSE IF rooms_details_provided /\ collapsed.t # "list"
        THEN [fields |-> <<>>, error |-> "rooms_details must be a list"]
        ELSE IF rooms_count_provided /\ ~rooms_count_int.ok
        THEN [fields |-> <<>>, error |-> "rooms_count must be an integer"]
        ELSE [fields |-> text_fields @@ details_fields @@ count_fields, error |-> ""]

\* _fetch_property: the row joined with its owner's names, None when the
\* property or its owner does not exist.
_fetch_property(props, property_id) ==
    IF property_id \in DOMAIN props /\ props[property_id].owner_id \in DOMAIN users
    THEN [found |-> TRUE,
          row |-> [id |-> property_id,
                   first_name |-> users[props[property_id].owner_id].first_name,
                   last_name |-> users[props[property_id].owner_id].last_name]
                  @@ props[property_id]]
    ELSE [found |-> FALSE, row |-> <<>>]

\* _serialize_property: the JSON object of a joined row; rooms_details is the
\* stored text parsed back, [] when it is empty or no JSON.
_serialize_property(row) ==
    LET rooms_details == row.rooms_details
        parsed_rooms ==
            IF rooms_details.t = "str" /\ rooms_details.s # <<>>
            THEN (IF json_loads(rooms_details.s).ok
                  THEN json_loads(rooms_details.s).items ELSE <<>>)
            ELSE IF rooms_details.t = "list" THEN rooms_details.s
            ELSE <<>>
    IN  [id |-> row.id, name |-> row.name, description |-> row.description,
         property_type |-> row.property_type, city |-> row.city,
         rooms_count |-> row.rooms_count, rooms_details |-> List(parsed_rooms),
         created_at |-> row.created_at, updated_at |-> row.updated_at,
         owner |-> [id |-> row.owner_id, first_name |-> row.first_name,
                    last_name |-> row.last_name]]

\* `property_row['owner_id'] != current_user_id`
owner_mismatch_never(property_row, current_user_id) == FALSE

owner_mismatch(property_row, current_user_id) ==
    property_row.owner_id # current_user_id

owner_exists_always(current_user_id) == TRUE

\* `SELECT id FROM users WHERE id = %s` finds a row.
owner_exists(current_user_id) == current_user_id \in DOMAIN users

\* After db.commit(): `_serialize_property(_fetch_property(id))`.  When the
\* fetch finds no row, row.get raises on None and the request ends as a 500.
refetched(props, property_id, status) ==
    IF _fetch_property(props, property_id).found
    THEN jsonify(status, [property |->
            _serialize_property(_fetch_property(props, property_id).row)])
    ELSE server_error

\* POST /properties
create_property(raw, payload) ==
    LET current_user_id == get_current_user_id(raw)
        extracted == _extract_property_payload(payload, FALSE)
        fields == extracted.fields
        id == property_id_seq
        inserted == (id :> [name |-> fields["name"],
                            description |-> fields["description"],
                            property_type |-> fields["property_type"],
                            city |-> fields["city"],
                            rooms_count |-> fields["rooms_count"],
                            rooms_details |-> fields["rooms_details"],
                            owner_id |-> current_user_id.id,
                            created_at |-> now,
                            updated_at |-> now]) @@ properties
    IN  IF ~current_user_id.some
        THEN Result(jsonify_error(401, "X-User-Id header is required"), FALSE)
        ELSE IF extracted.error # ""
        THEN Result(jsonify_error(400, extracted.error), FALSE)
        ELSE IF ~owner_exists(current_user_id.id)
        THEN Result(jsonify_error(400, "owner user not found"), TRUE)
        ELSE [Result(refetched(inserted, id, 201), TRUE)
                EXCEPT !.properties = inserted,
                       !.property_id_seq = property_id_seq + 1,
                       !.commit = TRUE]

update_row_both_timestamps(row, fields) ==
    [c \in DOMAIN row |->
        IF c \in DOMAIN fields THEN fields[c]
        ELSE IF c \in {"updated_at", "created_at"} THEN now
        ELSE row[c]]

\* `UPDATE properties SET <supplied columns>, updated_at = CURRENT_TIMESTAMP`
update_row(row, fields) ==
    [c \in DOMAIN row |->
        IF c \in DOMAIN fields THEN fields[c]
        ELSE IF c = "updated_at" THEN now
        ELSE row[c]]

\* PUT|PATCH /properties/<int:property_id>
update_property(property_id, raw, payload) ==
    LET current_user_id == get_current_user_id(raw)
        property_row == _fetch_property(properties, property_id)
        extracted == _extract_property_payload(payload, TRUE)
        updated == [properties EXCEPT ![property_id] =
                        update_row(properties[property_id], extracted.fields)]
    IN  IF ~current_user_id.some
        THEN Result(jsonify_error(401, "X-User-Id header is required"), FALSE)
        ELSE IF ~property_row.found
        THEN Result(jsonify_error(404, "property not found"), TRUE)
        ELSE IF owner_mismatch(property_row.row, current_user_id.id)
        THEN Result(jsonify_error(403, "you can only edit your own properties"), TRUE)
        ELSE IF extracted.error # ""
        THEN Result(jsonify_error(400, extracted.error), TRUE)
        ELSE IF DOMAIN extracted.fields = {}
        THEN Result(jsonify_error(400, "nothing to update"), TRUE)
        ELSE [Result(refetched(updated, property_id, 200), TRUE)
                EXCEPT !.properties = updated, !.commit = TRUE]

\* DELETE /properties/<int:property_id>
delete_property(property_id, raw) ==
    LET current_user_id == get_current_user_id(raw)
        property_row == _fetch_property(properties, property_id)
    IN  IF ~current_user_id.some
        THEN Result(jsonify_error(401, "X-User-Id header is required"), FALSE)
        ELSE IF ~property_row.found
        THEN Result(jsonify_error(404, "property not found"), TRUE)
        ELSE IF owner_mismatch(property_row.row, current_user_id.id)
        THEN Result(jsonify_error(403, "you can only delete your own properties"), TRUE)
        ELSE [Result(jsonify(200, [message |-> "property deleted"]), TRUE)
                EXCEPT !.properties = [i \in DOMAIN properties \ {property_id} |->
                                          properties[i]],
                       !.commit = TRUE]

\* GET /properties/<int:property_id>
retrieve_property(property_id) ==
    LET property_row == _fetch_property(properties, property_id)
    IN  IF ~property_row.found
        THEN Result(jsonify_error(404, "property not found"), TRUE)
        ELSE Result(jsonify(200, [property |-> _serialize_property(property_row.row)]), TRUE)

\* request.args.get(name) or '': the parameter's text, '' when it is missing.
arg_or_empty(arg) == IF arg.t = "str" THEN arg.s ELSE <<>>

\* int(request.args.get(name, default)), default on ValueError.
int_arg(arg, default) ==
    IF arg.t = "str" /\ ParseInt(arg.s).ok THEN ParseInt(arg.s).n ELSE default

DefaultPage == 1
DefaultPageSize == 20
MaxPageSize == 100

city_matches_exact(stored, city) == stored = city

\* `WHERE LOWER(p.city) = LOWER(%s)`
city_matches(stored, city) == Lower(stored) = Lower(city)

\* ORDER BY created_at DESC over a set of property ids.
RECURSIVE NewestFirst(_)
NewestFirst(S) ==
    IF S = {} THEN <<>>
    ELSE LET m == CHOOSE x \in S :
                    \A y \in S : properties[x].created_at >= properties[y].created_at
         IN  <<m>> \o NewestFirst(S \ {m})

\* LIMIT page_size OFFSET offset
Page(rows, page_size, offset) ==
    SubSeq(rows, offset + 1, Min(Len(rows), offset + page_size))

\* GET /properties
list_properties(args) ==
    LET city == Strip(arg_or_empty(args.city))
        page == Max(int_arg(args.page, DefaultPage), 1)
        page_size == Max(Min(int_arg(args.page_size, DefaultPageSize), MaxPageSize), 1)
        offset == (page - 1) * page_size
        matching == {i \in DOMAIN properties :
                        /\ _fetch_property(properties, i).found
                        /\ properties[i].city.t = "str"
                        /\ city_matches(properties[i].city.s, city)}
        ids == Page(NewestFirst(matching), page_size, offset)
    IN  IF city = <<>>
        THEN Result(jsonify_error(400, "city query parameter is required"), TRUE)
        ELSE Result(jsonify(200,
                [properties |-> [k \in 1..Len(ids) |->
                        _serialize_property(_fetch_property(properties, ids[k]).row)],
                 page |-> page, page_size |-> page_size]), TRUE)

\* ------------------------------------------------------------------ inputs
\* X-User-Id: absent, no integer, a negative integer, the ids 1 and 2.
Headers ==
    {Absent,
     Str(<<"x">>),
     Str(<<"-", "1">>),
     Str(<<"1">>),
     Str(<<"2">>)}

\* POST /users payloads: two the code accepts, then a missing and an empty
\* field, a null date, an impossible date, a date in another format and a
\* date that is a JSON number.
UserPayloads ==
    {[first_name |-> Str(<<"A">>), last_name |-> Str(<<"D">>), date_of_birth |-> Str(<<"1", "9", "9", "0", "-", "0", "1", "-", "1", "5">>)],
     [first_name |-> Str(<<"A">>), last_name |-> Str(<<"D">>), date_of_birth |-> Str(<<"1", "9", "9", "0", "-", "1", "-", "1", "5">>)],
     [first_name |-> Absent, last_name |-> Str(<<"D">>), date_of_birth |-> Str(<<"1", "9", "9", "0", "-", "0", "1", "-", "1", "5">>)],
     [first_name |-> Str(<<"A">>), last_name |-> Str(<<>>), date_of_birth |-> Str(<<"1", "9", "9", "0", "-", "0", "1", "-", "1", "5">>)],
     [first_name |-> Str(<<"A">>), last_name |-> Str(<<"D">>), date_of_birth |-> Null],
     [first_name |-> Str(<<"A">>), last_name |-> Str(<<"D">>), date_of_birth |-> Str(<<"2", "0", "2", "3", "-", "0", "2", "-", "3", "0">>)],
     [first_name |-> Str(<<"A">>), last_name |-> Str(<<"D">>), date_of_birth |-> Str(<<"1", "5", "/", "0", "1", "/", "1", "9", "9", "0">>)],
     [first_name |-> Str(<<"A">>), last_name |-> Str(<<"D">>), date_of_birth |-> Num(19900115)]}

\* PATCH /users/{id} payloads.
UserPatches ==
    {[first_name |-> Absent, last_name |-> Str(<<"X">>), date_of_birth |-> Absent],
     [first_name |-> Str(<<"B">>), last_name |-> Absent, date_of_birth |-> Absent],
     [first_name |-> Absent, last_name |-> Absent, date_of_birth |-> Null],
     [first_name |-> Absent, last_name |-> Absent, date_of_birth |-> Str(<<"2", "0", "0", "0", "-", "0", "2", "-", "2", "9">>)],
     [first_name |-> Str(<<"B">>), last_name |-> Absent, date_of_birth |-> Str(<<"2", "0", "2", "3", "-", "0", "2", "-", "3", "0">>)],
     [first_name |-> Absent, last_name |-> Absent, date_of_birth |-> Absent],
     [first_name |-> Absent, last_name |-> Absent, date_of_birth |-> Num(19900115)]}

Room1 == "bedroom15"
Room2 == "salon20"
Room3 == "kitchen10"

\* POST /properties payloads: three the code accepts, then a missing name, a
\* blank city, rooms_details that is no list, rooms_count that is no integer
\* and the empty payload.
PropertyPayloads ==
    {[name |-> Str(<<" ", "A", " ">>), description |-> Str(<<"B">>), property_type |-> Str(<<"h">>), city |-> Str(<<" ", "P", "a", "r", "i", "s", " ">>), rooms_details |-> List(<<Room1, Room2>>), rooms_count |-> Absent],
     [name |-> Str(<<"A">>), description |-> Str(<<"B">>), property_type |-> Str(<<"h">>), city |-> Str(<<"L", "y", "o", "n">>), rooms_details |-> Absent, rooms_count |-> Num(-3)],
     [name |-> Str(<<"A">>), description |-> Str(<<"B">>), property_type |-> Str(<<"h">>), city |-> Str(<<"P", "a", "r", "i", "s">>), rooms_details |-> Null, rooms_count |-> Str(<<"2">>)],
     [name |-> Absent, description |-> Str(<<"B">>), property_type |-> Str(<<"h">>), city |-> Str(<<"P", "a", "r", "i", "s">>), rooms_details |-> Absent, rooms_count |-> Absent],
     [name |-> Str(<<"A">>), description |-> Str(<<"B">>), property_type |-> Str(<<"h">>), city |-> Str(<<" ", " ">>), rooms_details |-> Absent, rooms_count |-> Absent],
     [name |-> Str(<<"A">>), description |-> Str(<<"B">>), property_type |-> Str(<<"h">>), city |-> Str(<<"P", "a", "r", "i", "s">>), rooms_details |-> Str(<<"x">>), rooms_count |-> Absent],
     [name |-> Str(<<"A">>), description |-> Str(<<"B">>), property_type |-> Str(<<"h">>), city |-> Str(<<"P", "a", "r", "i", "s">>), rooms_details |-> List(<<Room1>>), rooms_count |-> Str(<<"a", "b", "c">>)],
     [name |-> Absent, description |-> Absent, property_type |-> Absent, city |-> Absent, rooms_details |-> Absent, rooms_count |-> Absent]}

\* PUT|PATCH /properties/{id} payloads; the last one also carries an owner_id
\* key, which no handler reads.
PropertyPatches ==
    {[name |-> Absent, description |-> Absent, property_type |-> Absent, city |-> Str(<<"l", "y", "o", "n", " ">>), rooms_details |-> Absent, rooms_count |-> Absent, owner_id |-> Absent],
     [name |-> Absent, description |-> Absent, property_type |-> Absent, city |-> Absent, rooms_details |-> List(<<Room3>>), rooms_count |-> Absent, owner_id |-> Absent],
     [name |-> Absent, description |-> Absent, property_type |-> Absent, city |-> Absent, rooms_details |-> Absent, rooms_count |-> Num(5), owner_id |-> Absent],
     [name |-> Absent, description |-> Absent, property_type |-> Absent, city |-> Absent, rooms_details |-> Absent, rooms_count |-> Absent, owner_id |-> Absent],
     [name |-> Str(<<" ">>), description |-> Absent, property_type |-> Absent, city |-> Absent, rooms_details |-> Absent, rooms_count |-> Absent, owner_id |-> Absent],
     [name |-> Str(<<"N">>), description |-> Absent, property_type |-> Absent, city |-> Absent, rooms_details |-> Absent, rooms_count |-> Null, owner_id |-> Absent],
     [name |-> Str(<<"N">>), description |-> Absent, property_type |-> Absent, city |-> Absent, rooms_details |-> Absent, rooms_count |-> Absent, owner_id |-> Num(2)]}

\* GET /properties query strings.
Queries ==
    {[city |-> Absent, page |-> Absent, page_size |-> Absent],
     [city |-> Str(<<" ", " ">>), page |-> Absent, page_size |-> Absent],
     [city |-> Str(<<"p", "a", "r", "i", "s">>), page |-> Absent, page_size |-> Absent],
     [city |-> Str(<<" ", "P", "A", "R", "I", "S", " ">>), page |-> Absent, page_size |-> Str(<<"1">>)],
     [city |-> Str(<<"l", "y", "o", "n">>), page |-> Str(<<"2">>), page_size |-> Absent],
     [city |-> Str(<<"P", "a", "r", "i", "s">>), page |-> Str(<<"0">>), page_size |-> Str(<<"x">>)]}

\* ----------------------------------------------------------------- actions
Request(op, raw, id, data) == [op |-> op, raw |-> raw, id |-> id, data |-> data]

NoRequest == Request("none", Absent, 0, <<>>)

NoResponse == [status |-> 0, error |-> "", body |-> NoBody]

\* The worker takes a request when it has none in hand and runs its handler to
\* the return: the handler's result r becomes the response, its commit (if
\* any) the new tables and one clock tick.  g.db is open from the first get_db.
Serve(request, r) ==
    /\ req = NoRequest
    /\ r.commit => now < MaxClock
    /\ req' = request
    /\ resp' = r.resp
    /\ users' = r.users
    /\ properties' = r.properties
    /\ user_id_seq' = r.user_id_seq
    /\ property_id_seq' = r.property_id_seq
    /\ now' = IF r.commit THEN now + 1 ELSE now
    /\ conn' = IF r.opened THEN "open" ELSE "none"
    /\ UNCHANGED inflight

\* The response is sent and the application context popped: the registered
\* teardown functions run on g, and the worker is free for the next request.
EndRequest ==
    /\ req # NoRequest
    /\ req' = NoRequest
    /\ resp' = NoResponse
    /\ conn' = teardown_appcontext(conn)
    /\ UNCHANGED <<users, properties, user_id_seq, property_id_seq, now, inflight>>

PostUsers ==
    \E data \in UserPayloads :
        Serve(Request("create_user", Absent, 0, data), create_user(data))

PatchUser ==
    \E user_id \in Ids, raw \in Headers, data \in UserPatches :
        Serve(Request("update_user", raw, user_id, data), update_user(user_id, raw, data))

GetUsers == Serve(Request("list_users", Absent, 0, <<>>), list_users)

GetUser ==
    \E user_id \in Ids :
        Serve(Request("get_user", Absent, user_id, <<>>), get_user(user_id))

GetProperties ==
    \E args \in Queries :
        Serve(Request("list_properties", Absent, 0, args), list_properties(args))

GetProperty ==
    \E property_id \in Ids :
        Serve(Request("retrieve_property", Absent, property_id, <<>>),
              retrieve_property(property_id))

PostProperties ==
    \E raw \in Headers, payload \in PropertyPayloads :
        Serve(Request("create_property", raw, 0, payload), create_property(raw, payload))

PutProperty ==
    \E property_id \in Ids, raw \in Headers, payload \in PropertyPatches :
        Serve(Request("update_property", raw, property_id, payload),
              update_property(property_id, raw, payload))

DeleteProperty ==
    \E property_id \in Ids, raw \in Headers :
        Serve(Request("delete_property", raw, property_id, <<>>),
              delete_property(property_id, raw))

Init ==
    /\ users = <<>>
    /\ properties = <<>>
    /\ user_id_seq = 1
    /\ property_id_seq = 1
    /\ now = 0
    /\ req = NoRequest
    /\ resp = NoResponse
    /\ conn = "none"
    /\ inflight = <<>>

Next ==
    \/ PostUsers
    \/ PatchUser
    \/ GetUsers
    \/ GetUser
    \/ GetProperties
    \/ GetProperty
    \/ PostProperties
    \/ PutProperty
    \/ DeleteProperty
    \/ EndRequest

Spec == Init /\ [][Next]_vars

\* ------------------------------------------------------ concurrent requests
\* Several workers serve one request each at the same time.  A handler is cut
\* where it gives the database to the others: after the statements up to its
\* validation, after its write and commit, and before its re-fetch.  A
\* statement sees what has been committed when it runs (READ COMMITTED).
MaxWorkers == 2

Workers == 1..MaxWorkers

Owner1 == Str(<<"1">>)

\* PATCH /users/1 naming only first_name, and naming only last_name.
PatchFirstName == [first_name |-> Str(<<"B">>), last_name |-> Absent, date_of_birth |-> Absent]

PatchLastName == [first_name |-> Absent, last_name |-> Str(<<"X">>), date_of_birth |-> Absent]

PatchCity ==
    [name |-> Absent, description |-> Absent, property_type |-> Absent,
     city |-> Str(<<"L", "y", "o", "n">>), rooms_details |-> Absent,
     rooms_count |-> Absent, owner_id |-> Absent]

CreateLyon ==
    [name |-> Str(<<"A">>), description |-> Str(<<"B">>), property_type |-> Str(<<"h">>),
     city |-> Str(<<"L", "y", "o", "n">>), rooms_details |-> Absent, rooms_count |-> Absent]

\* The requests the workers may be given.
ConcurrentRequests ==
    {Request("update_property", Owner1, 1, PatchCity),
     Request("update_property", Str(<<"2">>), 1, PatchCity),
     Request("delete_property", Owner1, 1, <<>>),
     Request("delete_property", Owner1, 2, <<>>),
     Request("create_property", Owner1, 0, CreateLyon),
     Request("update_user", Owner1, 1, PatchFirstName),
     Request("update_user", Owner1, 1, PatchLastName)}

Idle == [pc |-> "idle", request |-> NoRequest, held |-> <<>>, resp |-> NoResponse]

Answered(w, response) ==
    inflight' = [inflight EXCEPT ![w].pc = "done", ![w].resp = response]

\* PUT|PATCH /properties/{id} up to the validation of the payload: identity,
\* first _fetch_property, owner check, _extract_property_payload.  held: the
\* validated columns.
BeginUpdateProperty(w) ==
    \E request \in ConcurrentRequests :
        LET r == update_property(request.id, request.raw, request.data)
        IN  /\ inflight[w].pc = "idle"
            /\ request.op = "update_property"
            /\ inflight' = [inflight EXCEPT ![w] =
                    IF r.commit
                    THEN [pc |-> "update", request |-> request,
                          held |-> _extract_property_payload(request.data, TRUE).fields,
                          resp |-> NoResponse]
                    ELSE [pc |-> "done", request |-> request, held |-> <<>>, resp |-> r.resp]]
            /\ UNCHANGED <<users, properties, user_id_seq, property_id_seq, now, req, resp, conn>>

\* `UPDATE properties SET ... WHERE id = %s` and db.commit(): the row is
\* written when it still exists, no row is touched otherwise.
CommitUpdateProperty(w) ==
    LET id == inflight[w].request.id
    IN  /\ inflight[w].pc = "update"
        /\ inflight[w].request.op = "update_property"
        /\ properties' = IF id \in DOMAIN properties
                         THEN [properties EXCEPT ![id] = update_row(properties[id], inflight[w].held)]
                         ELSE properties
        /\ now' = now + 1
        /\ inflight' = [inflight EXCEPT ![w].pc = "refetch", ![w].held = id]
        /\ UNCHANGED <<users, user_id_seq, property_id_seq, req, resp, conn>>

\* POST /properties up to db.commit(): identity, validation, owner lookup and
\* INSERT ... RETURNING id.  held: the id returned.
BeginCreateProperty(w) ==
    \E request \in ConcurrentRequests :
        LET r == create_property(request.raw, request.data)
        IN  /\ inflight[w].pc = "idle"
            /\ request.op = "create_property"
            /\ properties' = r.properties
            /\ property_id_seq' = r.property_id_seq
            /\ now' = IF r.commit THEN now + 1 ELSE now
            /\ inflight' = [inflight EXCEPT ![w] =
                    IF r.commit
                    THEN [pc |-> "refetch", request |-> request,
                          held |-> property_id_seq, resp |-> NoResponse]
                    ELSE [pc |-> "done", request |-> request, held |-> <<>>, resp |-> r.resp]]
            /\ UNCHANGED <<users, user_id_seq, req, resp, conn>>

\* `_serialize_property(_fetch_property(id))` after the commit, of
\* create_property (201) and of update_property (200).
Refetch(w) ==
    /\ inflight[w].pc = "refetch"
    /\ Answered(w, refetched(properties, inflight[w].held,
                    IF inflight[w].request.op = "create_property" THEN 201 ELSE 200))
    /\ UNCHANGED <<users, properties, user_id_seq, property_id_seq, now, req, resp, conn>>

\* DELETE /properties/{id} up to the owner check.
BeginDeleteProperty(w) ==
    \E request \in ConcurrentRequests :
        LET r == delete_property(request.id, request.raw)
        IN  /\ inflight[w].pc = "idle"
            /\ request.op = "delete_property"
            /\ inflight' = [inflight EXCEPT ![w] =
                    IF r.commit
                    THEN [pc |-> "delete", request |-> request, held |-> <<>>, resp |-> NoResponse]
                    ELSE [pc |-> "done", request |-> request, held |-> <<>>, resp |-> r.resp]]
            /\ UNCHANGED <<users, properties, user_id_seq, property_id_seq, now, req, resp, conn>>

\* `DELETE FROM properties WHERE id = %s`, db.commit() and the 200.
CommitDeleteProperty(w) ==
    LET id == inflight[w].request.id
    IN  /\ inflight[w].pc = "delete"
        /\ properties' = [i \in DOMAIN properties \ {id} |-> properties[i]]
        /\ now' = now + 1
        /\ Answered(w, jsonify(200, [message |-> "property deleted"]))
        /\ UNCHANGED <<users, user_id_seq, property_id_seq, req, resp, conn>>

\* PATCH /users/{id} up to the UPDATE: identity, SELECT of the row, merge of
\* the payload into the row read, date validation.  held: the three values
\* the UPDATE will write.
BeginUpdateUser(w) ==
    \E request \in ConcurrentRequests :
        LET r == update_user(request.id, request.raw, request.data)
        IN  /\ inflight[w].pc = "idle"
            /\ request.op = "update_user"
            /\ inflight' = [inflight EXCEPT ![w] =
                    IF r.commit
                    THEN [pc |-> "update", request |-> request,
                          held |-> r.users[request.id], resp |-> NoResponse]
                    ELSE [pc |-> "done", request |-> request, held |-> <<>>, resp |-> r.resp]]
            /\ UNCHANGED <<users, properties, user_id_seq, property_id_seq, now, req, resp, conn>>

\* `UPDATE users SET first_name = %s, last_name = %s, date_of_birth = %s`,
\* db.commit() and the 200.
CommitUpdateUser(w) ==
    LET id == inflight[w].request.id
    IN  /\ inflight[w].pc = "update"
        /\ inflight[w].request.op = "update_user"
        /\ users' = IF id \in DOMAIN users
                    THEN [users EXCEPT ![id] = inflight[w].held]
                    ELSE users
        /\ now' = now + 1
        /\ Answered(w, jsonify(200, [message |-> "user updated"]))
        /\ UNCHANGED <<properties, user_id_seq, property_id_seq, req, resp, conn>>

\* The tables after POST /users (A, D, 1990-01-15) and POST /properties by
\* that user (" A ", "B", "h", " Paris ", two rooms).
SeededUsers ==
    1 :> [first_name |-> Str(<<"A">>), last_name |-> Str(<<"D">>),
          date_of_birth |-> DateVal(1990, 1, 15)]

SeededProperties ==
    1 :> [name |-> Str(<<"A">>), description |-> Str(<<"B">>),
          property_type |-> Str(<<"h">>), city |-> Str(<<"P", "a", "r", "i", "s">>),
          rooms_count |-> Num(2),
          rooms_details |-> Str(<<"[", Room1, ",", Room2, "]">>),
          owner_id |-> 1, created_at |-> 1, updated_at |-> 1]

InitConcurrent ==
    /\ users = SeededUsers
    /\ properties = SeededProperties
    /\ user_id_seq = 2
    /\ property_id_seq = 2
    /\ now = 2
    /\ req = NoRequest
    /\ resp = NoResponse
    /\ conn = "none"
    /\ inflight = [w \in Workers |-> Idle]

NextConcurrent ==
    \E w \in Workers :
        \/ BeginUpdateProperty(w)
        \/ CommitUpdateProperty(w)
        \/ BeginCreateProperty(w)
        \/ Refetch(w)
        \/ BeginDeleteProperty(w)
        \/ CommitDeleteProperty(w)
        \/ BeginUpdateUser(w)
        \/ CommitUpdateUser(w)

SpecConcurrent == InitConcurrent /\ [][NextConcurrent]_vars

\* ============================================================== properties
MutatingOps == {"create_property", "update_property", "delete_property", "update_user"}

TablesUnchanged ==
    /\ users' = users
    /\ properties' = properties
    /\ user_id_seq' = user_id_seq
    /\ property_id_seq' = property_id_seq

\* The header holds text that int() accepts.
HeaderIsInteger(raw) == raw.t = "str" /\ ParseInt(raw.s).ok

HeaderValue(raw) == ParseInt(raw.s).n

\* C1: a PUT, PATCH or DELETE on an existing property, sent with an identity
\* other than the owner's, is answered 403 whatever the payload; no table
\* changes and GET /properties/{id} still returns the row.
C1_NonOwnerForbidden ==
    [][ ( /\ req'.op \in {"update_property", "delete_property"}
          /\ req'.id \in DOMAIN properties
          /\ HeaderIsInteger(req'.raw)
          /\ HeaderValue(req'.raw) # properties[req'.id].owner_id )
        => ( /\ resp'.status = 403
             /\ TablesUnchanged
             /\ (retrieve_property(req.id).resp.status = 200)'
             /\ (retrieve_property(req.id).resp)' = retrieve_property(req'.id).resp )
      ]_vars

\* C1 witness: a non-owner sent a valid, non-empty update and got 403.
C1_Witness ==
    /\ req.op = "update_property"
    /\ resp.status = 403
    /\ req.id \in DOMAIN properties
    /\ req.data.city = Str(<<"l", "y", "o", "n", " ">>)

\* C2 as stated: no header, or a header that is no positive integer, is
\* answered 401 by the four mutating handlers and changes nothing.
C2_Original ==
    [][ ( /\ req'.op \in MutatingOps
          /\ ~(HeaderIsInteger(req'.raw) /\ HeaderValue(req'.raw) > 0) )
        => (resp'.status = 401 /\ TablesUnchanged)
      ]_vars

\* C2 amended: no header, or a header int() rejects, is answered 401 by the
\* four mutating handlers and changes nothing.
C2_NoIdentityUnauthorized ==
    [][ (req'.op \in MutatingOps /\ ~HeaderIsInteger(req'.raw))
        => ( /\ resp'.status = 401
             /\ resp'.error = "X-User-Id header is required"
             /\ TablesUnchanged )
      ]_vars

\* C2 witness: a valid create payload sent with a header that is no integer.
C2_Witness ==
    /\ req.op = "create_property"
    /\ req.raw = Str(<<"x">>)
    /\ _extract_property_payload(req.data, FALSE).error = ""
    /\ resp.status = 401

\* C3 as stated: a GET of an id with no row is answered 404 with the error
\* "user not found", respectively "property not found".
C3_Original ==
    /\ (req.op = "get_user" /\ req.id \notin DOMAIN users)
        => (resp.status = 404 /\ resp.error = "user not found")
    /\ (req.op = "retrieve_property" /\ req.id \notin DOMAIN properties)
        => (resp.status = 404 /\ resp.error = "property not found")

\* C3 amended: a GET of an id with no row is answered 404; the body is
\* {"error": "not found"} for a user and {"error": "property not found"} for a
\* property.
C3_MissingIs404 ==
    /\ (req.op = "get_user" /\ req.id \notin DOMAIN users)
        => (resp.status = 404 /\ resp.error = "not found" /\ resp.body = NoBody)
    /\ (req.op = "retrieve_property" /\ req.id \notin DOMAIN properties)
        => (resp.status = 404 /\ resp.error = "property not found" /\ resp.body = NoBody)

\* C3 witness: a user id with no row was fetched while another user exists.
C3_Witness ==
    /\ req.op = "get_user"
    /\ req.id \notin DOMAIN users
    /\ DOMAIN users # {}
    /\ resp.status = 404

\* C4 as stated: once a request is over, the connection it opened through
\* get_db has been closed by close_db.
C4_ConnectionClosed == req = NoRequest => conn # "open"

\* C5: a request of the four payload-taking handlers that is answered 400
\* leaves both tables and both sequences as they were.
C5_RejectedWritesNothing ==
    [][ ( /\ req'.op \in {"create_user", "update_user", "create_property", "update_property"}
          /\ resp'.status = 400 )
        => TablesUnchanged
      ]_vars

\* C5 witness: a user update naming a new first_name and an impossible date
\* was rejected.
C5_Witness ==
    /\ req.op = "update_user"
    /\ resp.status = 400
    /\ req.data.first_name = Str(<<"B">>)
    /\ req.data.date_of_birth.t = "str"
    /\ users[req.id].first_name = Str(<<"A">>)

\* C6: a PATCH /users/{id} answered 200 leaves every field its payload does
\* not name, and every other user row, as before the request.
C6_UnnamedFieldsKept ==
    [][ (req'.op = "update_user" /\ resp'.status = 200)
        => ( /\ DOMAIN users' = DOMAIN users
             /\ req'.id \in DOMAIN users
             /\ \A field \in allowed_fields :
                    req'.data[field].t = "absent"
                        => users'[req'.id][field] = users[req'.id][field]
             /\ \A other \in DOMAIN users \ {req'.id} : users'[other] = users[other]
             /\ properties' = properties )
      ]_vars

\* C6 witness: only last_name was sent; the row has the new last_name and the
\* first_name and date_of_birth it was created with.
C6_Witness ==
    /\ req.op = "update_user"
    /\ resp.status = 200
    /\ req.data = [first_name |-> Absent, last_name |-> Str(<<"X">>), date_of_birth |-> Absent]
    /\ users[req.id] = [first_name |-> Str(<<"A">>), last_name |-> Str(<<"X">>),
                        date_of_birth |-> DateVal(1990, 1, 15)]

\* A create payload the specification calls valid: the four text fields are
\* strings that are not blank, rooms_details is omitted, null, '' or a list,
\* rooms_count is omitted or an integer (a number or its decimal text).
ValidCreatePayload(payload) ==
    /\ \A f \in {"name", "description", "property_type", "city"} :
            payload[f].t = "str" /\ Strip(payload[f].s) # <<>>
    /\ \/ payload.rooms_details.t \in {"absent", "null", "list"}
       \/ payload.rooms_details = Str(<<>>)
    /\ \/ payload.rooms_count.t \in {"absent", "int"}
       \/ payload.rooms_count.t = "str" /\ ParseInt(payload.rooms_count.s).ok

SuppliedInteger(value) == IF value.t = "int" THEN value.n ELSE ParseInt(value.s).n

\* The property object the claim expects for a payload.
ShowsNormalizedInput(shown, payload) ==
    /\ \A f \in {"name", "description", "property_type", "city"} :
            shown[f] = Str(Strip(payload[f].s))
    /\ payload.rooms_details.t = "list" => shown.rooms_details = payload.rooms_details
    /\ payload.rooms_details.t = "absent" => shown.rooms_details = List(<<>>)
    /\ shown.rooms_count =
            IF payload.rooms_count.t # "absent"
            THEN Num(Max(0, SuppliedInteger(payload.rooms_count)))
            ELSE Num(Len(shown.rooms_details.s))

\* C7: a valid POST /properties from an existing user is answered 201 with the
\* normalized input, and GET /properties/{id} then shows the same object.
C7_CreateShowsNormalizedInput ==
    ( /\ req.op = "create_property"
      /\ HeaderIsInteger(req.raw)
      /\ HeaderValue(req.raw) \in DOMAIN users
      /\ ValidCreatePayload(req.data) )
    => /\ resp.status = 201
       /\ ShowsNormalizedInput(resp.body.property, req.data)
       /\ resp.body.property.owner.id = HeaderValue(req.raw)
       /\ retrieve_property(resp.body.property.id).resp.status = 200
       /\ retrieve_property(resp.body.property.id).resp.body.property = resp.body.property

\* C7 witness: padded name and city, two rooms and no rooms_count were sent;
\* the response shows the trimmed texts, the two rooms in order and count 2.
C7_Witness ==
    /\ req.op = "create_property"
    /\ resp.status = 201
    /\ req.data.name = Str(<<" ", "A", " ">>)
    /\ req.data.rooms_count = Absent
    /\ resp.body.property.name = Str(<<"A">>)
    /\ resp.body.property.city = Str(<<"P", "a", "r", "i", "s">>)
    /\ resp.body.property.rooms_details = List(<<Room1, Room2>>)
    /\ resp.body.property.rooms_count = Num(2)

\* The city a query asks for, and the page it asks for.
RequestedCity(args) == Strip(arg_or_empty(args.city))

FirstPage(args) == int_arg(args.page, DefaultPage) <= 1

IsIsoDate(value) ==
    /\ value.t = "str"
    /\ Len(value.s) = 10
    /\ value.s[5] = "-" /\ value.s[8] = "-"
    /\ \A i \in {1, 2, 3, 4, 6, 7, 9, 10} : value.s[i] \in Digits
    /\ ValidDate(DigitsValue(SubSeq(value.s, 1, 4), 0),
                 DigitsValue(SubSeq(value.s, 6, 7), 0),
                 DigitsValue(SubSeq(value.s, 9, 10), 0))

\* C9 as stated: POST /users inserts one row and answers 201 with its id when
\* the three fields are non-empty and date_of_birth is a real YYYY-MM-DD date;
\* every other payload is answered 400 with a message and inserts nothing.
C9_CreateUserValidation ==
    [][ req'.op = "create_user"
        => IF /\ Truthy(req'.data.first_name)
              /\ Truthy(req'.data.last_name)
              /\ IsIsoDate(req'.data.date_of_birth)
           THEN /\ resp'.status = 201
                /\ resp'.body.id \notin DOMAIN users
                /\ DOMAIN users' = DOMAIN users \cup {resp'.body.id}
           ELSE /\ resp'.status = 400
                /\ resp'.error # ""
                /\ users' = users
      ]_vars

ValidIdentityOfNoUser(raw) == HeaderIsInteger(raw) /\ HeaderValue(raw) \notin DOMAIN users

OwnersExist == \A p \in DOMAIN properties : properties[p].owner_id \in DOMAIN users

\* No step removes a user or changes the owner_id of a property.
OwnersKept ==
    /\ DOMAIN users \subseteq DOMAIN users'
    /\ \A p \in DOMAIN properties \cap DOMAIN properties' :
            properties'[p].owner_id = properties[p].owner_id

\* C10 as stated: every owner_id names a user row; POST /properties with an
\* identity of no user is answered 400 "owner user not found" and inserts
\* nothing; no handler removes a user or changes an owner_id.
C10_Original ==
    [][ /\ OwnersExist'
        /\ OwnersKept
        /\ (req'.op = "create_property" /\ ValidIdentityOfNoUser(req'.raw))
            => /\ resp'.status = 400
               /\ resp'.error = "owner user not found"
               /\ TablesUnchanged
      ]_vars

\* C10 amended: as stated, but the message is "owner user not found" when the
\* payload passes validation, and the validation message otherwise.
C10_OwnersExist ==
    [][ /\ OwnersExist'
        /\ OwnersKept
        /\ (req'.op = "create_property" /\ ValidIdentityOfNoUser(req'.raw))
            => /\ resp'.status = 400
               /\ TablesUnchanged
               /\ resp'.error =
                    IF _extract_property_payload(req'.data, FALSE).error = ""
                    THEN "owner user not found"
                    ELSE _extract_property_payload(req'.data, FALSE).error
      ]_vars

\* C10 witness: a valid payload was sent with the id of no user while a
\* property exists.
C10_Witness ==
    /\ req.op = "create_property"
    /\ resp.status = 400
    /\ resp.error = "owner user not found"
    /\ DOMAIN properties # {}


PayloadColumns ==
    {"name", "description", "property_type", "city", "rooms_details", "rooms_count"}

\* A successful update of row id left everything outside that row, and the
\* row's id, created_at and owner_id, as they were, and stamped updated_at.
UpdateFrame(id) ==
    /\ DOMAIN properties' = DOMAIN properties
    /\ id \in DOMAIN properties
    /\ \A other \in DOMAIN properties \ {id} : properties'[other] = properties[other]
    /\ users' = users
    /\ properties'[id].owner_id = properties[id].owner_id
    /\ properties'[id].created_at = properties[id].created_at
    /\ properties'[id].updated_at = now

\* C11 as stated: a PUT|PATCH /properties/{id} answered 200 changes only the
\* columns its payload names plus updated_at; rooms_count too keeps its value
\* when only rooms_details is named; owner_id is never changed.
C11_Original ==
    [][ (req'.op = "update_property" /\ resp'.status = 200)
        => /\ UpdateFrame(req'.id)
           /\ \A c \in PayloadColumns :
                req'.data[c].t = "absent"
                    => properties'[req'.id][c] = properties[req'.id][c]
      ]_vars

\* C11 amended: as stated, except that a payload naming rooms_details without
\* rooms_count also sets rooms_count, to the length of the list supplied.
C11_OnlySuppliedColumns ==
    [][ (req'.op = "update_property" /\ resp'.status = 200)
        => /\ UpdateFrame(req'.id)
           /\ \A c \in PayloadColumns \ {"rooms_count"} :
                req'.data[c].t = "absent"
                    => properties'[req'.id][c] = properties[req'.id][c]
           /\ req'.data.rooms_count.t = "absent"
                => properties'[req'.id].rooms_count =
                     IF req'.data.rooms_details.t = "absent"
                     THEN properties[req'.id].rooms_count
                     ELSE Num(Len(resp'.body.property.rooms_details.s))
      ]_vars

\* C11 witness: only rooms_details was sent, for a property created with two
\* rooms; the row now has the one room sent and rooms_count 1.
C11_Witness ==
    /\ req.op = "update_property"
    /\ resp.status = 200
    /\ req.data.rooms_details = List(<<Room3>>)
    /\ req.data.rooms_count = Absent
    /\ properties[req.id].rooms_count = Num(1)
    /\ properties[req.id].created_at < properties[req.id].updated_at


\* The tables the concurrent workers start from are tables the handlers build.
SeedReached ==
    /\ users = SeededUsers
    /\ properties = SeededProperties
    /\ user_id_seq = 2 /\ property_id_seq = 2 /\ now = 2

Done(w, op) == inflight[w].pc = "done" /\ inflight[w].request.op = op

\* C12 as stated: under every interleaving with DELETE requests of the owner,
\* a PUT|PATCH /properties/{id} ends 200, 400, 401, 403 or 404 and a POST
\* /properties ends 201, 400 or 401; the re-fetch after the commit finds the
\* row and no request ends 500.
C12_NoUnhandledFault ==
    \A w \in DOMAIN inflight :
        /\ Done(w, "update_property") => inflight[w].resp.status \in {200, 400, 401, 403, 404}
        /\ Done(w, "create_property") => inflight[w].resp.status \in {201, 400, 401}

\* Two workers have both been answered 200 for PATCH /users/1, one naming
\* only first_name and the other only last_name.
BothPatched(w1, w2) ==
    /\ Done(w1, "update_user") /\ inflight[w1].request.data = PatchFirstName
    /\ Done(w2, "update_user") /\ inflight[w2].request.data = PatchLastName
    /\ inflight[w1].resp.status = 200 /\ inflight[w2].resp.status = 200

\* C13 as stated: once both PATCHes are answered 200 the row holds both
\* requested values.
C13_Original ==
    \A w1, w2 \in DOMAIN inflight :
        BothPatched(w1, w2)
            => /\ users[1].first_name = PatchFirstName.first_name
               /\ users[1].last_name = PatchLastName.last_name

\* C13 amended: once both PATCHes are answered 200, each of the two fields
\* holds the requested value or the value it had before both requests, at
\* least one of them holds the requested value, and date_of_birth is as before.
C13_LastWriteWins ==
    \A w1, w2 \in DOMAIN inflight :
        BothPatched(w1, w2)
            => /\ users[1].first_name \in {PatchFirstName.first_name, SeededUsers[1].first_name}
               /\ users[1].last_name \in {PatchLastName.last_name, SeededUsers[1].last_name}
               /\ \/ users[1].first_name = PatchFirstName.first_name
                  \/ users[1].last_name = PatchLastName.last_name
               /\ users[1].date_of_birth = SeededUsers[1].date_of_birth

\* C13 witness: both PATCHes were answered 200 and the row has the new
\* first_name with the last_name from before the other PATCH.
C13_Witness ==
    /\ \E w1, w2 \in DOMAIN inflight : BothPatched(w1, w2)
    /\ users[1].first_name = PatchFirstName.first_name
    /\ users[1].last_name = SeededUsers[1].last_name

====
